---- MODULE Spec2Model ----
(***************************************************************************)
(* A model of harpia's route planning pipeline, BuildCSV.run              *)
(* (src/src/lib/build_csv.py), and of main (src/main.py), which calls it.  *)
(* One action per call made by run and per step of main; the pure helpers  *)
(* of the class are operators.  ScaledSpec is solve_tsp_ortools called on  *)
(* a matrix of any distances.                                              *)
(*                                                                         *)
(* Representation.                                                         *)
(*   - A point is <<x, y>> with integer coordinates.                       *)
(*   - A distance (a Python float) is a fixed-point integer counting       *)
(*     1/DistUnit distance units: the Euclidean distance rounded down to   *)
(*     four decimals.                                                      *)
(*   - An elevation (a Python float) is a fixed-point integer counting     *)
(*     1/ElevUnit height units; None is the missing statistic that         *)
(*     zonal_stats returns for a zone with no valid cell.                  *)
(*   - A route, a list of 0-based positions, is a sequence of 0-based      *)
(*     positions; feature number i of the code is rows[i + 1] here.        *)
(*   - A coordinate reference system is a name; reprojecting is a shift of *)
(*     the origin (ToCrs), so that it is never the identity.               *)
(***************************************************************************)
EXTENDS Integers, Sequences, FiniteSets, TLC

\* Largest number of features in a features file.
MaxFeatures == 3

\* Fixed-point resolution of distances: 1 distance unit = DistUnit.
DistUnit == 10000
\* Fixed-point resolution of elevations: 1 height unit = ElevUnit.
ElevUnit == 10000
\* The missing zonal statistic (stats "max" of a zone with no valid cell).
None == -1

\* The positions features are drawn from, in the raster's CRS.
Sites == {<<0, 0>>, <<2, 0>>, <<0, 4>>, <<2, 4>>}

\* ------------------------------------------------------------------------
\* Arithmetic

Abs(x) == IF x < 0 THEN -x ELSE x

Min(S) == CHOOSE x \in S : \A y \in S : x <= y

Max(S) == CHOOSE x \in S : \A y \in S : y <= x

RECURSIVE ISqrtIter(_, _, _)
\* The integer r with lo <= r < hi and r*r <= x < (r+1)*(r+1).
ISqrtIter(x, lo, hi) ==
    IF hi - lo <= 1 THEN lo
    ELSE LET mid == (lo + hi) \div 2
         IN  IF mid * mid <= x THEN ISqrtIter(x, mid, hi)
                               ELSE ISqrtIter(x, lo, mid)

ISqrt(x) == ISqrtIter(x, 0, 46340)

\* Squared Euclidean distance of two points.
D2(p, q) == (p[1] - q[1]) * (p[1] - q[1]) + (p[2] - q[2]) * (p[2] - q[2])

\* ------------------------------------------------------------------------
\* Coordinate reference systems: to_crs

CrsOrigin(crs) ==
    CASE crs = "UTM"   -> <<0, 0>>
      [] crs = "ALT"   -> <<10, 20>>
      [] crs = "WGS84" -> <<-70, -8>>

\* GeoDataFrame.to_crs on one point.
ToCrs(p, from, to) ==
    <<p[1] + CrsOrigin(from)[1] - CrsOrigin(to)[1],
      p[2] + CrsOrigin(from)[2] - CrsOrigin(to)[2]>>

\* ------------------------------------------------------------------------
\* Inputs: the configuration given to BuildCSV.__init__ and the files it names

\* The AOI file: two polygons (boxes <<x0, y0, x1, y1>>) in the raster's CRS.
\* The first holds the sites with y = 0, the second the site <<2, 4>> only.
AoiFile == [crs |-> "UTM", polygons |-> << <<-1, -1, 3, 1>>, <<1, 3, 3, 5>> >>]

\* The takeoff coordinates a configuration may give: none (<<>>), [x, y] in
\* the raster's CRS (on a site; halfway between two sites), or (lat, lon).
Takeoffs ==
    { [coords |-> <<>>, projected |-> FALSE],
      [coords |-> <<0, 0>>, projected |-> TRUE],
      [coords |-> <<1, 0>>, projected |-> TRUE],
      [coords |-> <<12, 72>>, projected |-> FALSE] }

\* aoi_path (given or not) and aoi_index (None or 1-based).
Aois ==
    { [aoi_path |-> FALSE, aoi_index |-> None],
      [aoi_path |-> TRUE, aoi_index |-> None],
      [aoi_path |-> TRUE, aoi_index |-> 1],
      [aoi_path |-> TRUE, aoi_index |-> 2] }

\* The configurations main may find: features_path and dsm_path given (then
\* csv_path is not), or no features_path, with or without a csv_path.
\* csv_path is "" for None, "given", and "generated" once main has set it.
Configs ==
    { [features_path |-> TRUE, dsm_path |-> TRUE, csv_path |-> "",
       aoi_path |-> a.aoi_path, aoi_index |-> a.aoi_index,
       takeoff_coords |-> t.coords, takeoff_coords_projected |-> t.projected,
       buffer_path |-> 1, buffer_feature |-> 1] : a \in Aois, t \in Takeoffs }
    \cup
    { [features_path |-> FALSE, dsm_path |-> d, csv_path |-> c,
       aoi_path |-> FALSE, aoi_index |-> None,
       takeoff_coords |-> <<>>, takeoff_coords_projected |-> FALSE,
       buffer_path |-> 1, buffer_feature |-> 1] :
          d \in BOOLEAN, c \in {"", "given"} }

SiteSeqs == UNION {[1..n -> Sites] : n \in 0..MaxFeatures}

\* The rows of a features file holding the sites s, in the file's CRS: all
\* points, all polygons (a box around each site), or a line among points.
FileRows(crs, kind, s) ==
    [i \in 1..Len(s) |->
        LET p == ToCrs(s[i], "UTM", crs)
        IN  CASE kind = "Point" -> [geom_type |-> "Point", geometry |-> p]
              [] kind = "Polygon" ->
                    [geom_type |-> "Polygon",
                     geometry |-> <<p[1] - 1, p[2] - 1, p[1] + 1, p[2] + 1>>]
              [] kind = "Mixed" ->
                    [geom_type |-> IF i = 1 THEN "LineString" ELSE "Point",
                     geometry |-> p]]

FeatureFiles ==
    { [crs |-> c, rows |-> FileRows(c, k, s)] :
        c \in {"UTM", "ALT"}, k \in {"Point", "Polygon", "Mixed"}, s \in SiteSeqs }

\* The raster's cell centres: the lattice points of a small window.
Cells == (-1..3) \X (-1..5)

\* Cell values of the raster files: constant 50; 50 with small bumps between
\* the sites and a higher cell at <<2, 4>>; 50 with no valid cell around
\* <<0, 0>>; and no valid cell at all.
RasterCell(raster, c) ==
    CASE raster = "flat" -> 50 * ElevUnit
      [] raster = "varied" ->
            CASE c = <<1, 1>> -> 50 * ElevUnit + 5
              [] c = <<1, 3>> -> 50 * ElevUnit + 10
              [] c = <<2, 4>> -> 52 * ElevUnit
              [] OTHER -> 50 * ElevUnit
      [] raster = "hole" -> IF D2(c, <<0, 0>>) <= 1 THEN None ELSE 50 * ElevUnit
      [] raster = "void" -> None

Box(l, b, r, t) == [left |-> l, bottom |-> b, right |-> r, top |-> t]

DsmFiles ==
    { [bounds |-> Box(-1, -1, 3, 5), raster |-> r] :
        r \in {"flat", "varied", "hole", "void"} }
    \cup { [bounds |-> Box(-1, -1, 3, 4), raster |-> "flat"],
           [bounds |-> Box(-1, -1, 3, 3), raster |-> "flat"] }

\* ------------------------------------------------------------------------
\* State

VARIABLES
    main_pc,            \* the next step of main, or "aborted" / "failed" / "done"
    mission,            \* the mission files main has built so far
    config,             \* the configuration: main's config, BuildCSV's fields
    pc,                 \* the next call of run, or "done" / "failed"
    error,              \* the exception run ended with, NoError if none
    num_in_file,        \* number of rows of the features file that was read
    features,           \* the features GeoDataFrame: [crs, rows]
    dsm,                \* the raster: the handle read_dsm opened and its file
    samples,            \* number of zonal_stats calls made so far
    coords,             \* run's coords array
    distance_matrix,    \* run's distance_matrix
    takeoff_coords_dsm, \* run's takeoff_coords_dsm (<<>> for None)
    objective,          \* the cost of the solver's solution
    tsp_route,          \* run's tsp_route (NoRoute for None)
    waypoints,          \* run's waypoints
    checkpoints,        \* run's checkpoints
    merged,             \* run's merged
    csv_df,             \* run's csv_df
    gpkg_gdf,           \* run's gpkg_gdf
    written             \* the output files written so far

vars == <<main_pc, mission, config, pc, error, num_in_file, features, dsm, samples, coords, distance_matrix,
          takeoff_coords_dsm, objective, tsp_route, waypoints, checkpoints,
          merged, csv_df, gpkg_gdf, written>>

NoError == [raised |-> "", failure |-> "", stage |-> "", message |-> "", ids |-> <<>>]

NoRoute == <<>>

Init ==
    /\ main_pc = "start"
    /\ mission = <<>>
    /\ config \in Configs
    /\ pc = "read_features"
    /\ error = NoError
    /\ num_in_file = 0
    /\ features = [crs |-> "", rows |-> <<>>]
    /\ dsm = [open |-> FALSE, crs |-> "", bounds |-> Box(0, 0, 0, 0), raster |-> ""]
    /\ samples = 0
    /\ coords = <<>>
    /\ distance_matrix = <<>>
    /\ takeoff_coords_dsm = <<>>
    /\ objective = 0
    /\ tsp_route = NoRoute
    /\ waypoints = <<>>
    /\ checkpoints = <<>>
    /\ merged = <<>>
    /\ csv_df = <<>>
    /\ gpkg_gdf = <<>>
    /\ written = {}

\* An exception leaves run.  raised is the Python class, stage the method that
\* raised it, message the head of its text and ids the identifiers the text
\* lists; failure is the name the design's error taxonomy gives to this raise
\* statement ("" for an exception no raise statement of the class produces).
Raise(raised, failure, stage, message, ids) ==
    /\ pc' = "failed"
    /\ error' = [raised |-> raised, failure |-> failure, stage |-> stage,
                 message |-> message, ids |-> ids]

\* ------------------------------------------------------------------------
\* 1. read_features

\* representative_point of a box: the centre; of a point: the point.
RepresentativePoint(row) ==
    IF row.geom_type = "Polygon"
    THEN <<(row.geometry[1] + row.geometry[3]) \div 2,
           (row.geometry[2] + row.geometry[4]) \div 2>>
    ELSE row.geometry

\* shapely intersects of a point and a box (boundary included).
Intersects(p, box) ==
    /\ box[1] <= p[1] /\ p[1] <= box[3]
    /\ box[2] <= p[2] /\ p[2] <= box[4]

\* The AOI polygons kept by aoi_index, reprojected to the features' CRS.
AoiPolygons(aoi_index, crs) ==
    LET chosen == IF aoi_index # None
                  THEN <<AoiFile.polygons[aoi_index]>>
                  ELSE AoiFile.polygons
        Reproject(b) ==
            IF crs # AoiFile.crs
            THEN ToCrs(<<b[1], b[2]>>, AoiFile.crs, crs)
                    \o ToCrs(<<b[3], b[4]>>, AoiFile.crs, crs)
            ELSE b
    IN  {Reproject(chosen[k]) : k \in 1..Len(chosen)}

\* The GeoDataFrame read_features builds before it counts the features:
\* points, point_id from the row identifier, the AOI mask applied.
LoadFeatures(file, cfg) ==
    LET all == [i \in 1..Len(file.rows) |->
                    [point_id |-> i, geometry |-> RepresentativePoint(file.rows[i])]]
        InAoi(r) == \E b \in AoiPolygons(cfg.aoi_index, file.crs) :
                        Intersects(r.geometry, b)
    IN  [crs |-> file.crs,
         rows |-> IF cfg.aoi_path THEN SelectSeq(all, InAoi) ELSE all]

Supported(file) ==
    LET geom_type == {file.rows[i].geom_type : i \in 1..Len(file.rows)}
    IN  \/ \A gt \in geom_type : gt \in {"Polygon", "MultiPolygon"}
        \/ \A gt \in geom_type : gt = "Point"

\* read_features raising the same error for no feature and for one.
read_features_CountsAlike(file) ==
    IF ~Supported(file)
    THEN /\ Raise("ValueError", "InputError", "read_features",
                  "Unsupported geometry type(s)", <<>>)
         /\ UNCHANGED features
    ELSE LET loaded == LoadFeatures(file, config)
         IN  /\ features' = loaded
             /\ IF Len(loaded.rows) <= 1
                THEN Raise("ValueError", "InputError", "read_features",
                           "No features found", <<>>)
                ELSE pc' = "read_dsm" /\ UNCHANGED error

read_features(file) ==
    IF ~Supported(file)
    THEN /\ Raise("ValueError", "InputError", "read_features",
               "Unsupported geometry type(s)", <<>>)
         /\ UNCHANGED features
    ELSE LET loaded == LoadFeatures(file, config)
             num_features == Len(loaded.rows)
         IN  /\ features' = loaded
             /\ CASE num_features = 0 ->
                        Raise("ValueError", "InputError", "read_features",
                              "No features found", <<>>)
                  [] num_features = 1 ->
                        Raise("ValueError", "InsufficientFeaturesError",
                              "read_features", "Found only 1 feature",
                              <<loaded.rows[1].point_id>>)
                  [] OTHER -> pc' = "read_dsm" /\ UNCHANGED error

ReadFeatures ==
    /\ main_pc = "build_csv"
    /\ pc = "read_features"
    /\ \E file \in FeatureFiles :
          /\ read_features(file)
          /\ num_in_file' = Len(file.rows)
    /\ UNCHANGED <<main_pc, mission, config, dsm, samples, coords, distance_matrix,
                   takeoff_coords_dsm, objective, tsp_route, waypoints,
                   checkpoints, merged, csv_df, gpkg_gdf, written>>

\* ------------------------------------------------------------------------
\* 2. read_dsm

ReadDsm ==
    /\ pc = "read_dsm"
    /\ \E file \in DsmFiles :
          dsm' = [open |-> TRUE, crs |-> "UTM", bounds |-> file.bounds,
                  raster |-> file.raster]
    /\ pc' = "align_features_to_dsm"
    /\ UNCHANGED <<main_pc, mission, config, num_in_file, error, features, samples, coords, distance_matrix,
                   takeoff_coords_dsm, objective, tsp_route, waypoints,
                   checkpoints, merged, csv_df, gpkg_gdf, written>>

\* ------------------------------------------------------------------------
\* 3. align_features_to_dsm

align_features_to_dsm(f, d) ==
    IF f.crs # d.crs
    THEN [crs |-> d.crs,
          rows |-> [i \in 1..Len(f.rows) |->
                      [f.rows[i] EXCEPT !.geometry = ToCrs(@, f.crs, d.crs)]]]
    ELSE f

AlignFeaturesToDsm ==
    /\ pc = "align_features_to_dsm"
    /\ features' = align_features_to_dsm(features, dsm)
    /\ pc' = "check_features_overlap_dsm"
    /\ UNCHANGED <<main_pc, mission, config, num_in_file, error, dsm, samples, coords, distance_matrix,
                   takeoff_coords_dsm, objective, tsp_route, waypoints,
                   checkpoints, merged, csv_df, gpkg_gdf, written>>

\* ------------------------------------------------------------------------
\* 4. check_features_overlap_dsm

\* shapely within of a point and the box of the bounds (boundary excluded).
Within(p, b) ==
    /\ b.left < p[1] /\ p[1] < b.right
    /\ b.bottom < p[2] /\ p[2] < b.top

\* The message lists at most this many identifiers.
MaxIdsListed == 10

non_overlapping_features(f, d) ==
    LET Outside(r) == ~Within(r.geometry, d.bounds)
    IN  SelectSeq(f.rows, Outside)

\* check_features_overlap_dsm raising only when no feature is within.
check_features_overlap_dsm_NoneWithin(f, d) ==
    LET outside == non_overlapping_features(f, d)
        ids_outside == [i \in 1..Len(outside) |-> outside[i].point_id]
    IN  IF Len(outside) = Len(f.rows)
        THEN Raise("ValueError", "CoverageError", "check_features_overlap_dsm",
                   "features are outside the DSM extent",
                   SubSeq(ids_outside, 1, Min({MaxIdsListed, Len(ids_outside)})))
        ELSE pc' = "extract_features_elevations" /\ UNCHANGED error

check_features_overlap_dsm(f, d) ==
    LET outside == non_overlapping_features(f, d)
        ids_outside == [i \in 1..Len(outside) |-> outside[i].point_id]
    IN  IF outside # <<>>
        THEN Raise("ValueError", "CoverageError", "check_features_overlap_dsm",
                   "features are outside the DSM extent",
                   SubSeq(ids_outside, 1, Min({MaxIdsListed, Len(ids_outside)})))
        ELSE pc' = "extract_features_elevations" /\ UNCHANGED error

CheckFeaturesOverlapDsm ==
    /\ pc = "check_features_overlap_dsm"
    /\ check_features_overlap_dsm(features, dsm)
    /\ UNCHANGED <<main_pc, mission, config, num_in_file, features, dsm, samples, coords, distance_matrix,
                   takeoff_coords_dsm, objective, tsp_route, waypoints,
                   checkpoints, merged, csv_df, gpkg_gdf, written>>

\* ------------------------------------------------------------------------
\* 5. extract_features_elevations (point mode of the elevation sampler)

\* The raster's value at a cell centre: None outside the bounds.
RasterValue(d, c) ==
    IF Within(c, d.bounds) THEN RasterCell(d.raster, c) ELSE None

\* zonal_stats(zone, dsm_path, stats=["max"]): the maximum over the valid
\* cells whose centre is in the zone, None when there is none.
ZonalMax(d, zone) ==
    LET valid == {RasterValue(d, c) : c \in zone} \ {None}
    IN  IF valid = {} THEN None ELSE Max(valid)

\* The cells whose centre is in the buffer of radius r around the point p.
PointBuffer(p, r) == {c \in Cells : D2(c, p) <= r * r}

extract_features_elevations(f, d, cfg) ==
    [f EXCEPT !.rows =
        [i \in 1..Len(f.rows) |->
            [point_id |-> f.rows[i].point_id,
             geometry |-> f.rows[i].geometry,
             elev |-> ZonalMax(d, PointBuffer(f.rows[i].geometry, cfg.buffer_feature))]]]

ExtractFeaturesElevations ==
    /\ pc = "extract_features_elevations"
    /\ features' = extract_features_elevations(features, dsm, config)
    /\ samples' = samples + Len(features.rows)
    /\ pc' = "build_distance_matrix"
    /\ UNCHANGED <<main_pc, mission, config, num_in_file, error, dsm, coords, distance_matrix,
                   takeoff_coords_dsm, objective, tsp_route, waypoints,
                   checkpoints, merged, csv_df, gpkg_gdf, written>>

\* ------------------------------------------------------------------------
\* 6. coords and build_distance_matrix

\* Largest squared distance between a site and a site or a takeoff place.
MaxD2 == Max({D2(p, q) : p \in Sites, q \in Sites \cup {<<1, 0>>}})

SqrtTable == [d \in 0..MaxD2 |-> ISqrt(d * DistUnit * DistUnit)]

\* shapely distance of two points; numpy norm of their difference.
Distance(p, q) == SqrtTable[D2(p, q)]

\* The geometries of the rows as a 0-based array.
Geometries(f) == [i \in 0..(Len(f.rows) - 1) |-> f.rows[i + 1].geometry]

\* build_distance_matrix filling the entries above the diagonal only.
build_distance_matrix_UpperOnly(points) ==
    LET num_features == Cardinality(DOMAIN points)
    IN  [i \in 0..(num_features - 1) |->
            [j \in 0..(num_features - 1) |->
                IF i < j THEN Distance(points[i], points[j]) ELSE 0]]

build_distance_matrix(points) ==
    LET num_features == Cardinality(DOMAIN points)
    IN  [i \in 0..(num_features - 1) |->
            [j \in 0..(num_features - 1) |->
                IF i # j THEN Distance(points[i], points[j]) ELSE 0]]

BuildDistanceMatrix ==
    /\ pc = "build_distance_matrix"
    /\ coords' = Geometries(features)
    /\ distance_matrix' = build_distance_matrix(Geometries(features))
    /\ pc' = "transform_takeoff_coords"
    /\ UNCHANGED <<main_pc, mission, config, num_in_file, error, features, dsm, samples, takeoff_coords_dsm,
                   objective, tsp_route, waypoints, checkpoints, merged,
                   csv_df, gpkg_gdf, written>>

\* ------------------------------------------------------------------------
\* 7. transform_takeoff_coords_to_dsm_crs

transform_takeoff_coords_to_dsm_crs(cfg, dsm_crs) ==
    IF ~cfg.takeoff_coords_projected
    THEN LET lat == cfg.takeoff_coords[1]
             lon == cfg.takeoff_coords[2]
         IN  ToCrs(<<lon, lat>>, "WGS84", dsm_crs)
    ELSE cfg.takeoff_coords

TransformTakeoffCoords ==
    /\ pc = "transform_takeoff_coords"
    /\ takeoff_coords_dsm' =
          IF config.takeoff_coords # <<>>
          THEN transform_takeoff_coords_to_dsm_crs(config, dsm.crs)
          ELSE <<>>
    /\ pc' = "solve_tsp_ortools"
    /\ UNCHANGED <<main_pc, mission, config, num_in_file, error, features, dsm, samples, coords,
                   distance_matrix, objective, tsp_route, waypoints,
                   checkpoints, merged, csv_df, gpkg_gdf, written>>

\* ------------------------------------------------------------------------
\* 8. solve_tsp_ortools

\* The factor the distances are scaled by before they are made integers.
CostScale == 1000

\* scaled_matrix making the distances integers before it scales them.
scaled_matrix_TruncatesFirst(dm) ==
    [i \in DOMAIN dm |-> [j \in DOMAIN dm[i] |-> (dm[i][j] \div DistUnit) * CostScale]]

\* (distance_matrix * 1000).astype(int): scaled, truncated toward zero.
scaled_matrix(dm) ==
    [i \in DOMAIN dm |-> [j \in DOMAIN dm[i] |-> (dm[i][j] * CostScale) \div DistUnit]]

\* ArgMin keeping the last position of the smallest distance.
ArgMin_Last(dists) ==
    Max({i \in DOMAIN dists : \A j \in DOMAIN dists : dists[i] <= dists[j]})

\* int(np.argmin(dists)): the first position of the smallest distance.
ArgMin(dists) ==
    Min({i \in DOMAIN dists : \A j \in DOMAIN dists : dists[i] <= dists[j]})

start_index(takeoff_coords, waypoints_coords) ==
    IF takeoff_coords # <<>> /\ waypoints_coords # <<>>
    THEN ArgMin([i \in DOMAIN waypoints_coords |->
                    Distance(waypoints_coords[i], takeoff_coords)])
    ELSE 0

\* RoutingIndexManager(n, 1, depot): index i < n is node i, and index n, the
\* end of the only vehicle, is the depot again.
IndexToNode(index, n, depot) == IF index = n THEN depot ELSE index

IsEnd(index, n) == index = n

distance_callback(scaled, from_index, to_index, n, depot) ==
    scaled[IndexToNode(from_index, n, depot)][IndexToNode(to_index, n, depot)]

\* The assignments of NextVar the routing model allows: one vehicle that
\* leaves Start = depot, visits every other node once and reaches End.
Assignments(n, depot) ==
    LET orders == {p \in [1..n -> 0..(n - 1)] :
                      /\ p[1] = depot
                      /\ \A a, b \in 1..n : a # b => p[a] # p[b]}
    IN  {[index \in 0..(n - 1) |->
            LET k == CHOOSE k \in 1..n : p[k] = index
            IN  IF k = n THEN n ELSE p[k + 1]] : p \in orders}

RECURSIVE ArcCostFrom(_, _, _, _, _)
\* The arc cost evaluator summed along the vehicle's route from index to End.
ArcCostFrom(index, next, scaled, n, depot) ==
    IF IsEnd(index, n) THEN 0
    ELSE distance_callback(scaled, index, next[index], n, depot)
            + ArcCostFrom(next[index], next, scaled, n, depot)

\* The objective of the routing model: SetArcCostEvaluatorOfAllVehicles.
ArcCost(next, scaled, n, depot) == ArcCostFrom(depot, next, scaled, n, depot)

\* No solution: SolveWithParameters returned nothing within the time limit.
NoSolution == <<>>

\* What SolveWithParameters may return: an assignment of least objective
\* (the search settles on one for the sizes of this model), or nothing.
SolveWithParameters(scaled, n, depot) ==
    {a \in Assignments(n, depot) :
        \A b \in Assignments(n, depot) :
            ArcCost(a, scaled, n, depot) <= ArcCost(b, scaled, n, depot)}
    \cup {NoSolution}

RECURSIVE ExtractRoute_StopsEarly(_, _, _, _)
\* ExtractRoute leaving the loop when the next index is the end.
ExtractRoute_StopsEarly(index, solution, n, depot) ==
    IF IsEnd(solution[index], n) THEN <<>>
    ELSE <<IndexToNode(index, n, depot)>>
            \o ExtractRoute_StopsEarly(solution[index], solution, n, depot)

RECURSIVE ExtractRoute(_, _, _, _)
\* The loop that reads the route off the solution, from index to End.
ExtractRoute(index, solution, n, depot) ==
    IF IsEnd(index, n) THEN <<>>
    ELSE <<IndexToNode(index, n, depot)>>
            \o ExtractRoute(solution[index], solution, n, depot)

\* What solve_tsp_ortools returns for the solution the solver gave.
solve_tsp_ortools(solution, n, depot) ==
    IF solution # NoSolution
    THEN ExtractRoute(depot, solution, n, depot)
    ELSE NoRoute

SolveTsp ==
    /\ pc = "solve_tsp_ortools"
    /\ LET scaled == scaled_matrix(distance_matrix)
           n == Cardinality(DOMAIN scaled)
           depot == start_index(takeoff_coords_dsm, coords)
       IN  \E solution \in SolveWithParameters(scaled, n, depot) :
              /\ tsp_route' = solve_tsp_ortools(solution, n, depot)
              /\ objective' = IF solution # NoSolution
                              THEN ArcCost(solution, scaled, n, depot)
                              ELSE 0
    /\ pc' = "get_tsp_solution_df"
    /\ UNCHANGED <<main_pc, mission, config, num_in_file, error, features, dsm, samples, coords,
                   distance_matrix, takeoff_coords_dsm, waypoints,
                   checkpoints, merged, csv_df, gpkg_gdf, written>>

\* ------------------------------------------------------------------------
\* 9. get_tsp_solution_df

\* get_tsp_solution_df numbering the waypoints from 0.
get_tsp_solution_df_ZeroBased(f, route) ==
    [k \in 1..Len(route) |->
        [point_id |-> f.rows[route[k] + 1].point_id,
         type |-> "wpt",
         geometry |-> f.rows[route[k] + 1].geometry,
         elev |-> f.rows[route[k] + 1].elev,
         order |-> k - 1]]

get_tsp_solution_df(f, route) ==
    [k \in 1..Len(route) |->
        [point_id |-> f.rows[route[k] + 1].point_id,
         type |-> "wpt",
         geometry |-> f.rows[route[k] + 1].geometry,
         elev |-> f.rows[route[k] + 1].elev,
         order |-> k]]

\* features.iloc[None] raises TypeError: run has no check of a missing route.
GetTspSolutionDf ==
    /\ pc = "get_tsp_solution_df"
    /\ IF tsp_route = NoRoute
       THEN /\ Raise("TypeError", "", "get_tsp_solution_df",
                     "Cannot index by location index with a non-integer key", <<>>)
            /\ UNCHANGED waypoints
       ELSE /\ waypoints' = get_tsp_solution_df(features, tsp_route)
            /\ pc' = "extract_path_checkpoints"
            /\ UNCHANGED error
    /\ UNCHANGED <<main_pc, mission, config, num_in_file, features, dsm, samples, coords, distance_matrix,
                   takeoff_coords_dsm, objective, tsp_route, checkpoints,
                   merged, csv_df, gpkg_gdf, written>>

\* ------------------------------------------------------------------------
\* 10. extract_path_checkpoints (corridor mode of the elevation sampler)

\* The cells whose centre is within r of the segment from a to b.
SegmentBuffer(a, b, r) ==
    {c \in Cells :
        LET ab2 == D2(a, b)
            t == (c[1] - a[1]) * (b[1] - a[1]) + (c[2] - a[2]) * (b[2] - a[2])
            cross == (c[1] - a[1]) * (b[2] - a[2]) - (c[2] - a[2]) * (b[1] - a[1])
        IN  IF ab2 = 0 \/ t <= 0 THEN D2(c, a) <= r * r
            ELSE IF t >= ab2 THEN D2(c, b) <= r * r
            ELSE cross * cross <= r * r * ab2}

\* The centroid of the buffer of the segment from a to b: its midpoint.
Centroid(a, b) == <<(a[1] + b[1]) \div 2, (a[2] + b[2]) \div 2>>

extract_path_checkpoints(ordered_features, d, cfg) ==
    [i \in 1..(Len(ordered_features) - 1) |->
        LET a == ordered_features[i].geometry
            b == ordered_features[i + 1].geometry
        IN  [point_id |-> 0,
             type |-> "cpt",
             geometry |-> Centroid(a, b),
             elev |-> ZonalMax(d, SegmentBuffer(a, b, cfg.buffer_path)),
             order |-> 0]]

ExtractPathCheckpoints ==
    /\ pc = "extract_path_checkpoints"
    /\ checkpoints' = extract_path_checkpoints(waypoints, dsm, config)
    /\ samples' = samples + (Len(waypoints) - 1)
    /\ pc' = "merge_waypoints_and_checkpoints"
    /\ UNCHANGED <<main_pc, mission, config, num_in_file, error, features, dsm, coords, distance_matrix,
                   takeoff_coords_dsm, objective, tsp_route, waypoints,
                   merged, csv_df, gpkg_gdf, written>>

\* ------------------------------------------------------------------------
\* 11. merge_waypoints_and_checkpoints, fix_cpt_wpt_elevation_duplicates

RECURSIVE Interleave(_, _, _)
\* The loop of merge_waypoints_and_checkpoints from its iteration i on.
Interleave(wpts, cpts, i) ==
    IF i > Len(cpts) THEN <<>>
    ELSE <<wpts[i], cpts[i]>> \o Interleave(wpts, cpts, i + 1)

\* merge_waypoints_and_checkpoints without the append after the loop.
merge_waypoints_and_checkpoints_NoLast(wpts, cpts) ==
    Interleave(wpts, cpts, 1)

merge_waypoints_and_checkpoints(wpts, cpts) ==
    Interleave(wpts, cpts, 1) \o <<wpts[Len(wpts)]>>

MergeWaypointsAndCheckpoints ==
    /\ pc = "merge_waypoints_and_checkpoints"
    /\ merged' = merge_waypoints_and_checkpoints(waypoints, checkpoints)
    /\ pc' = "fix_cpt_wpt_elevation_duplicates"
    /\ UNCHANGED <<main_pc, mission, config, num_in_file, error, features, dsm, samples, coords,
                   distance_matrix, takeoff_coords_dsm, objective, tsp_route,
                   waypoints, checkpoints, csv_df, gpkg_gdf, written>>

\* abs(curr['elev'] - next_['elev']) < 1e-3, in 1/ElevUnit.
TieTolerance == ElevUnit \div 1000

\* A missing elevation is NaN in the elev column (every comparison with it
\* is false) unless the whole column is missing: then it is a column of
\* None objects, and subtracting them raises TypeError.
AllElevationsNone(df) == \A i \in 1..Len(df) : df[i].elev = None

\* IsTie without the conditions on the types of the two rows.
IsTie_AnyPair(curr, next_) ==
    /\ curr.elev # None /\ next_.elev # None
    /\ Abs(curr.elev - next_.elev) < ElevUnit \div 1000

\* The condition of the fix-up on the rows curr and next_.
IsTie(curr, next_) ==
    /\ curr.type = "cpt"
    /\ next_.type = "wpt"
    /\ curr.elev # None /\ next_.elev # None
    /\ Abs(curr.elev - next_.elev) < TieTolerance

RECURSIVE FixFrom_FirstOnly(_, _)
\* FixFrom leaving the loop after the first row it changes.
FixFrom_FirstOnly(df, i) ==
    IF i > Len(df) - 1 THEN df
    ELSE IF df[i].type = "cpt" /\ df[i + 1].type = "wpt"
            /\ df[i].elev # None /\ df[i + 1].elev # None
            /\ Abs(df[i].elev - df[i + 1].elev) < ElevUnit \div 1000
         THEN [df EXCEPT ![i].elev = df[i].elev + 1 * ElevUnit]
         ELSE FixFrom_FirstOnly(df, i + 1)

RECURSIVE FixFrom(_, _)
\* The loop of fix_cpt_wpt_elevation_duplicates from position i on.
FixFrom(df, i) ==
    IF i > Len(df) - 1 THEN df
    ELSE IF IsTie(df[i], df[i + 1])
         THEN FixFrom([df EXCEPT ![i].elev = df[i].elev + 1 * ElevUnit], i + 1)
         ELSE FixFrom(df, i + 1)

fix_cpt_wpt_elevation_duplicates(merged_df) == FixFrom(merged_df, 1)

FixCptWptElevationDuplicates ==
    /\ pc = "fix_cpt_wpt_elevation_duplicates"
    /\ IF AllElevationsNone(merged)
       THEN /\ Raise("TypeError", "", "fix_cpt_wpt_elevation_duplicates",
                     "unsupported operand type(s) for -", <<>>)
            /\ UNCHANGED merged
       ELSE /\ merged' = fix_cpt_wpt_elevation_duplicates(merged)
            /\ pc' = "to_wgs84"
            /\ UNCHANGED error
    /\ UNCHANGED <<main_pc, mission, config, num_in_file, features, dsm, samples, coords, distance_matrix,
                   takeoff_coords_dsm, objective, tsp_route, waypoints,
                   checkpoints, csv_df, gpkg_gdf, written>>

\* ------------------------------------------------------------------------
\* 12, 13. to_wgs84 and the two tables

\* merged_gdf after to_wgs84 and the added columns.
merged_gdf(merged_df, crs) ==
    [i \in 1..Len(merged_df) |->
        LET g == ToCrs(merged_df[i].geometry, crs, "WGS84")
        IN  [point_id |-> merged_df[i].point_id,
             type |-> merged_df[i].type,
             geometry |-> g,
             elev |-> merged_df[i].elev,
             order |-> merged_df[i].order,
             lon_x |-> g[1],
             lat_y |-> g[2],
             cluster_id |-> 0,
             elevation_from_dsm |-> merged_df[i].elev]]

\* gpkg_table without the filter on the type.
gpkg_table_KeepsCheckpoints(gdf) ==
    [i \in 1..Len(gdf) |->
        [point_id |-> gdf[i].point_id, type |-> gdf[i].type,
         geometry |-> gdf[i].geometry, elev |-> gdf[i].elev,
         order |-> gdf[i].order, lon_x |-> gdf[i].lon_x,
         lat_y |-> gdf[i].lat_y, cluster_id |-> gdf[i].cluster_id]]

gpkg_table(gdf) ==
    LET NotCpt(r) == r.type # "cpt"
        kept == SelectSeq(gdf, NotCpt)
    IN  [i \in 1..Len(kept) |->
            [point_id |-> kept[i].point_id, type |-> kept[i].type,
             geometry |-> kept[i].geometry, elev |-> kept[i].elev,
             order |-> kept[i].order, lon_x |-> kept[i].lon_x,
             lat_y |-> kept[i].lat_y, cluster_id |-> kept[i].cluster_id]]

csv_table(gdf) ==
    [i \in 1..Len(gdf) |->
        [point_id |-> gdf[i].point_id, cluster_id |-> gdf[i].cluster_id,
         type |-> gdf[i].type, lon_x |-> gdf[i].lon_x, lat_y |-> gdf[i].lat_y,
         elevation_from_dsm |-> gdf[i].elevation_from_dsm,
         order |-> gdf[i].order]]

ToWgs84 ==
    /\ pc = "to_wgs84"
    /\ gpkg_gdf' = gpkg_table(merged_gdf(merged, features.crs))
    /\ csv_df' = csv_table(merged_gdf(merged, features.crs))
    /\ pc' = "export_to_gpkg"
    /\ UNCHANGED <<main_pc, mission, config, num_in_file, error, features, dsm, samples, coords,
                   distance_matrix, takeoff_coords_dsm, objective, tsp_route,
                   waypoints, checkpoints, merged, written>>

\* ------------------------------------------------------------------------
\* 14. export_to_gpkg, export_to_csv, return

\* gdf.to_file writes the geometry file, or fails on the file system.
ExportToGpkg ==
    /\ pc = "export_to_gpkg"
    /\ \/ /\ written' = written \cup {"gpkg"}
          /\ pc' = "export_to_csv"
          /\ UNCHANGED error
       \/ /\ Raise("OSError", "", "export_to_gpkg", "", <<>>)
          /\ UNCHANGED written
    /\ UNCHANGED <<main_pc, mission, config, num_in_file, features, dsm, samples, coords, distance_matrix,
                   takeoff_coords_dsm, objective, tsp_route, waypoints,
                   checkpoints, merged, csv_df, gpkg_gdf>>

\* df.to_csv writes the flat file, or fails on the file system.
ExportToCsv ==
    /\ pc = "export_to_csv"
    /\ \/ /\ written' = written \cup {"csv"}
          /\ pc' = "return"
          /\ UNCHANGED error
       \/ /\ Raise("OSError", "", "export_to_csv", "", <<>>)
          /\ UNCHANGED written
    /\ UNCHANGED <<main_pc, mission, config, num_in_file, features, dsm, samples, coords, distance_matrix,
                   takeoff_coords_dsm, objective, tsp_route, waypoints,
                   checkpoints, merged, csv_df, gpkg_gdf>>

Return ==
    /\ pc = "return"
    /\ pc' = "done"
    /\ UNCHANGED <<main_pc, mission, config, num_in_file, error, features, dsm, samples, coords,
                   distance_matrix, takeoff_coords_dsm, objective, tsp_route,
                   waypoints, checkpoints, merged, csv_df, gpkg_gdf, written>>

\* ------------------------------------------------------------------------
\* main: BuildCSV.run when features and a raster are configured, the test of
\* the CSV file, then the mission files

\* The variables of a call of BuildCSV.run.
run_vars == <<pc, error, num_in_file, features, dsm, samples, coords,
              distance_matrix, takeoff_coords_dsm, objective, tsp_route,
              waypoints, checkpoints, merged, csv_df, gpkg_gdf, written>>

\* if config.features_path and config.dsm_path: build the BuildCSV object.
MainStart ==
    /\ main_pc = "start"
    /\ main_pc' = IF config.features_path /\ config.dsm_path
                  THEN "build_csv"
                  ELSE "check_csv"
    /\ UNCHANGED <<mission, config, run_vars>>

\* build_csv.run returned: config.csv_path = generated_csv_path.
MainRunReturned ==
    /\ main_pc = "build_csv"
    /\ pc = "done"
    /\ config' = [config EXCEPT !.csv_path = "generated"]
    /\ main_pc' = "check_csv"
    /\ UNCHANGED <<mission, run_vars>>

\* main catching the exception of run and going on with the CSV it expects.
MainRunRaised_Continues ==
    /\ main_pc = "build_csv"
    /\ pc = "failed"
    /\ config' = [config EXCEPT !.csv_path = "generated"]
    /\ main_pc' = "build_kml"
    /\ UNCHANGED <<mission, run_vars>>

\* build_csv.run raised: the except clause of main prints the error.
MainRunRaised ==
    /\ main_pc = "build_csv"
    /\ pc = "failed"
    /\ main_pc' = "failed"
    /\ UNCHANGED <<mission, config, run_vars>>

\* Path(config.csv_path).exists(): the file run has written is there; a
\* file named by the configuration may be there or not.
CsvExists(exists) ==
    CASE config.csv_path = "generated" -> "csv" \in written
      [] config.csv_path = "given" -> exists
      [] OTHER -> FALSE

\* if not config.csv_path or not Path(config.csv_path).exists(): return.
MainCheckCsv ==
    /\ main_pc = "check_csv"
    /\ \E exists \in BOOLEAN :
          main_pc' = IF config.csv_path = "" \/ ~CsvExists(exists)
                     THEN "aborted"
                     ELSE "build_kml"
    /\ UNCHANGED <<mission, config, run_vars>>

\* A step of main that builds a mission file: it is built and main goes on
\* to next, or the step raises and the except clause of main ends main.
MissionStep(at, file, next) ==
    /\ main_pc = at
    /\ \/ /\ mission' = Append(mission, file)
          /\ main_pc' = next
       \/ /\ main_pc' = "failed"
          /\ UNCHANGED mission
    /\ UNCHANGED <<config, run_vars>>

\* BuildTemplateKML: setup, generate, saveNewKML.
MainBuildKml == MissionStep("build_kml", "kml", "build_wpml")

\* BuildWaylinesWPML: setup, generate, saveNewWPML.
MainBuildWpml == MissionStep("build_wpml", "wpml", "create_kmz")

\* CreateKMZ().create_kmz().
MainCreateKmz == MissionStep("create_kmz", "kmz", "done")

Next ==
    \/ MainStart
    \/ MainRunReturned
    \/ MainRunRaised
    \/ MainCheckCsv
    \/ MainBuildKml
    \/ MainBuildWpml
    \/ MainCreateKmz
    \/ ReadFeatures
    \/ ReadDsm
    \/ AlignFeaturesToDsm
    \/ CheckFeaturesOverlapDsm
    \/ ExtractFeaturesElevations
    \/ BuildDistanceMatrix
    \/ TransformTakeoffCoords
    \/ SolveTsp
    \/ GetTspSolutionDf
    \/ ExtractPathCheckpoints
    \/ MergeWaypointsAndCheckpoints
    \/ FixCptWptElevationDuplicates
    \/ ToWgs84
    \/ ExportToGpkg
    \/ ExportToCsv
    \/ Return

Spec == Init /\ [][Next]_vars

\* ------------------------------------------------------------------------
\* solve_tsp_ortools called on a matrix of any distances

\* Distances around 1 that are less than 0.001 apart (1, 1.0004, 1.0009,
\* 1.001), and 0 for two features at one place.
CloseDistances == {0, DistUnit, DistUnit + 4, DistUnit + 9, DistUnit + 10}

\* The matrices of two and of three features, zero on the diagonal, with
\* these distances elsewhere (symmetric or not).
DistanceMatrices ==
    UNION { { m \in [0..(n - 1) -> [0..(n - 1) -> CloseDistances]] :
                \A i \in 0..(n - 1) : m[i][i] = 0 } : n \in 2..3 }

\* The static method solve_tsp_ortools is about to be called on a matrix,
\* with no takeoff coordinates.
ScaledInit ==
    /\ main_pc = "build_csv"
    /\ mission = <<>>
    /\ config \in {c \in Configs : /\ c.features_path
                                   /\ ~c.aoi_path
                                   /\ c.takeoff_coords = <<>>}
    /\ pc = "solve_tsp_ortools"
    /\ error = NoError
    /\ num_in_file = 0
    /\ features = [crs |-> "", rows |-> <<>>]
    /\ dsm = [open |-> FALSE, crs |-> "", bounds |-> Box(0, 0, 0, 0), raster |-> ""]
    /\ samples = 0
    /\ coords = <<>>
    /\ distance_matrix \in DistanceMatrices
    /\ takeoff_coords_dsm = <<>>
    /\ objective = 0
    /\ tsp_route = NoRoute
    /\ waypoints = <<>>
    /\ checkpoints = <<>>
    /\ merged = <<>>
    /\ csv_df = <<>>
    /\ gpkg_gdf = <<>>
    /\ written = {}

ScaledNext == SolveTsp

ScaledSpec == ScaledInit /\ [][ScaledNext]_vars

\* ------------------------------------------------------------------------
\* Stages of run, for the properties below

StageOrder ==
    << "read_features", "read_dsm", "align_features_to_dsm",
       "check_features_overlap_dsm", "extract_features_elevations",
       "build_distance_matrix", "transform_takeoff_coords",
       "solve_tsp_ortools", "get_tsp_solution_df", "extract_path_checkpoints",
       "merge_waypoints_and_checkpoints", "fix_cpt_wpt_elevation_duplicates",
       "to_wgs84", "export_to_gpkg", "export_to_csv", "return", "done" >>

StageNo(stage) == CHOOSE k \in 1..Len(StageOrder) : StageOrder[k] = stage

\* The stage run is at, or the stage whose exception ended it.
Position == IF pc = "failed" THEN StageNo(error.stage) ELSE StageNo(pc)

\* The stage has returned to run (without raising).
Returned(stage) == Position > StageNo(stage)

\* ------------------------------------------------------------------------
\* Properties

\* C1: whenever solve_tsp_ortools returns a route for n >= 2 features, the
\* route is a permutation of 0..n-1: its length is n and every index of
\* 0..n-1 occurs in it exactly once.
C1_RouteIsPermutation ==
    (Returned("solve_tsp_ortools") /\ tsp_route # NoRoute) =>
        LET n == Len(features.rows)
        IN  /\ n >= 2
            /\ Len(tsp_route) = n
            /\ \A i \in 0..(n - 1) :
                  Cardinality({k \in 1..Len(tsp_route) : tsp_route[k] = i}) = 1

\* A route of three features that is not the order of the file.
C1_Witness ==
    /\ Returned("solve_tsp_ortools")
    /\ Len(features.rows) = 3
    /\ tsp_route = <<1, 2, 0>>

\* C2: the first index of the returned route is the start index: with a
\* takeoff coordinate, the lowest index among the features nearest to it
\* (in the raster's CRS); without one, index 0.
C2_RouteStartsAtStartIndex ==
    (Returned("solve_tsp_ortools") /\ tsp_route # NoRoute) =>
        LET first == tsp_route[1]
            Far(i) == D2(features.rows[i + 1].geometry, takeoff_coords_dsm)
        IN  IF config.takeoff_coords = <<>>
            THEN first = 0
            ELSE /\ \A j \in 0..(Len(features.rows) - 1) : Far(first) <= Far(j)
                 /\ \A j \in 0..(first - 1) : Far(first) < Far(j)

\* A takeoff halfway between the features 1 and 2, feature 0 being farther:
\* the route starts at 1.
C2_Witness ==
    /\ Returned("solve_tsp_ortools")
    /\ tsp_route # NoRoute
    /\ takeoff_coords_dsm = <<1, 0>>
    /\ Len(features.rows) = 3
    /\ features.rows[1].geometry = <<0, 4>>
    /\ D2(features.rows[2].geometry, <<1, 0>>) = D2(features.rows[3].geometry, <<1, 0>>)
    /\ tsp_route[1] = 1

\* C4: the matrix build_distance_matrix returns is square of size n, its
\* entries are non-negative, its diagonal is zero and it is symmetric.
C4_DistanceMatrixSymmetric ==
    Returned("build_distance_matrix") =>
        LET idx == 0..(Len(features.rows) - 1)
        IN  /\ DOMAIN distance_matrix = idx
            /\ \A i \in idx :
                  /\ DOMAIN distance_matrix[i] = idx
                  /\ distance_matrix[i][i] = 0
                  /\ \A j \in idx :
                        /\ distance_matrix[i][j] >= 0
                        /\ distance_matrix[i][j] = distance_matrix[j][i]

\* A matrix of three features at three places.
C4_Witness ==
    /\ Returned("build_distance_matrix")
    /\ Len(features.rows) = 3
    /\ distance_matrix[0][1] > 0
    /\ distance_matrix[1][2] > distance_matrix[0][1]
    /\ distance_matrix[2][0] > 0

\* C5: for n >= 2 waypoints there are n-1 checkpoints, and the merged
\* sequence has 2n-1 records alternating wpt, cpt, ..., wpt: record 2k-1 is
\* waypoint k, record 2k is checkpoint k, which lies between the waypoints k
\* and k+1 (elevations apart, which the fix-up may change afterwards).
C5_RecordsAlternate ==
    LET n == Len(waypoints)
        Same(r, q) == /\ r.type = q.type /\ r.point_id = q.point_id
                      /\ r.geometry = q.geometry /\ r.order = q.order
    IN  /\ Returned("extract_path_checkpoints") =>
              /\ n >= 2
              /\ Len(checkpoints) = n - 1
        /\ Returned("merge_waypoints_and_checkpoints") =>
              /\ Len(merged) = 2 * n - 1
              /\ \A k \in 1..n :
                    /\ merged[2 * k - 1].type = "wpt"
                    /\ Same(merged[2 * k - 1], waypoints[k])
              /\ \A k \in 1..(n - 1) :
                    /\ merged[2 * k].type = "cpt"
                    /\ Same(merged[2 * k], checkpoints[k])
                    /\ merged[2 * k].geometry =
                          Centroid(waypoints[k].geometry, waypoints[k + 1].geometry)

\* Three waypoints at three places, merged.
C5_Witness ==
    /\ Returned("merge_waypoints_and_checkpoints")
    /\ Len(waypoints) = 3
    /\ Len(merged) = 5
    /\ merged[2].geometry # merged[4].geometry
    /\ merged[1].geometry # merged[5].geometry

\* The cost of a route as an open path: its n-1 consecutive pairs.
OpenPathCost(route, scaled) ==
    LET RECURSIVE Sum(_)
        Sum(k) == IF k >= Len(route) THEN 0
                  ELSE scaled[route[k]][route[k + 1]] + Sum(k + 1)
    IN  Sum(1)

\* The routes over 0..n-1 that start at the index start.
RoutesFrom(start, n) ==
    {r \in [1..n -> 0..(n - 1)] :
        r[1] = start /\ \A a, b \in 1..n : a # b => r[a] # r[b]}

\* C3: the cost the solver minimises is the open-path cost of the route (the
\* edge from the last feature back to the start costs nothing), so that a
\* route of least open-path cost from the start index is never passed over
\* for one of larger open-path cost: the returned route is one of least
\* open-path cost among the routes from its start index.
C3_OpenPathCostMinimised ==
    (Returned("solve_tsp_ortools") /\ tsp_route # NoRoute) =>
        LET scaled == scaled_matrix(distance_matrix)
        IN  \A r \in RoutesFrom(tsp_route[1], Len(tsp_route)) :
                OpenPathCost(tsp_route, scaled) <= OpenPathCost(r, scaled)

\* C6: after fix_cpt_wpt_elevation_duplicates, the elevations of every
\* checkpoint and the waypoint right after it differ by at least 1e-3.
C6_NoTieAfterFixup ==
    Returned("fix_cpt_wpt_elevation_duplicates") =>
        \A i \in 1..(Len(merged) - 1) :
            (merged[i].type = "cpt" /\ merged[i + 1].type = "wpt") =>
                /\ merged[i].elev # None
                /\ merged[i + 1].elev # None
                /\ Abs(merged[i].elev - merged[i + 1].elev) >= TieTolerance

\* The point lies outside the rectangle of the bounds.
OutsideBounds(p, b) ==
    p[1] < b.left \/ p[1] > b.right \/ p[2] < b.bottom \/ p[2] > b.top

\* C7: once the coverage check has run, a feature outside the raster's
\* bounding rectangle means the run failed with CoverageError in
\* check_features_overlap_dsm, and no elevation was sampled; so every
\* elevation sample is preceded by a coverage check that found no feature
\* outside.
C7_CoverageCheckedBeforeSampling ==
    LET outside == \E i \in 1..Len(features.rows) :
                      OutsideBounds(features.rows[i].geometry, dsm.bounds)
    IN  /\ (Position >= StageNo("check_features_overlap_dsm")
              /\ pc # "check_features_overlap_dsm" /\ outside) =>
                /\ pc = "failed"
                /\ error.failure = "CoverageError"
                /\ error.stage = "check_features_overlap_dsm"
                /\ samples = 0
        /\ samples > 0 =>
                /\ Returned("check_features_overlap_dsm")
                /\ ~outside

\* Two of three features outside the rectangle: the run has failed.
C7_Witness ==
    /\ pc = "failed"
    /\ error.failure = "CoverageError"
    /\ Len(features.rows) = 3
    /\ Len(error.ids) = 2
    /\ \A i \in 1..3 :
          OutsideBounds(features.rows[i].geometry, dsm.bounds)
              <=> (\E k \in 1..2 : error.ids[k] = features.rows[i].point_id)

C9_NoRouteFoundAtSolver ==
    (Position > StageNo("solve_tsp_ortools") /\ tsp_route = NoRoute) =>
        /\ pc = "failed"
        /\ error.stage = "solve_tsp_ortools"
        /\ error.failure = "NoRouteFoundError"
        /\ waypoints = <<>>
        /\ written = {}

\* C10: a missing elevation sample, of a feature or of a segment, makes the
\* run fail with SamplingError: it never reaches the comparison of the
\* fix-up and no record without elevation is written to an output.
C10_MissingElevationIsFatal ==
    LET missing ==
            \/ /\ Position > StageNo("extract_features_elevations")
               /\ \E i \in 1..Len(features.rows) : features.rows[i].elev = None
            \/ \E i \in 1..Len(checkpoints) : checkpoints[i].elev = None
    IN  /\ missing =>
            /\ pc = "failed"
            /\ error.failure = "SamplingError"
            /\ error.stage \in {"extract_features_elevations",
                                "extract_path_checkpoints"}
        /\ \A i \in 1..Len(csv_df) :
              written # {} => csv_df[i].elevation_from_dsm # None

\* C11: a run has no partial success: when it has ended, either it returned
\* and both output files are written, or it failed and neither is written
\* (a failure of the flat-file export does not leave the geometry file).
C11_NoPartialSuccess ==
    /\ pc = "done" => written = {"gpkg", "csv"}
    /\ pc = "failed" => written = {}

\* C12: when run has ended after read_dsm opened the raster, by returning or
\* by an exception of a later stage, the raster handle is closed.
C12_RasterHandleReleased ==
    (pc \in {"done", "failed"} /\ Returned("read_dsm")) => ~dsm.open

\* C13: once the tables are built (so in every successful run), the flat
\* table has every record of the merged sequence, in its order; the geometry
\* table has the waypoint records only, in the same relative order; and every
\* record's cluster_id is 0.
C13_TablesKeepOrder ==
    Returned("to_wgs84") =>
        LET Wgs84(g) == ToCrs(g, features.crs, "WGS84")
        IN  /\ Len(csv_df) = Len(merged)
            /\ \A i \in 1..Len(merged) :
                  /\ csv_df[i].type = merged[i].type
                  /\ csv_df[i].point_id = merged[i].point_id
                  /\ csv_df[i].order = merged[i].order
                  /\ csv_df[i].elevation_from_dsm = merged[i].elev
                  /\ <<csv_df[i].lon_x, csv_df[i].lat_y>> = Wgs84(merged[i].geometry)
                  /\ csv_df[i].cluster_id = 0
            /\ Len(gpkg_gdf) = Len(waypoints)
            /\ \A k \in 1..Len(gpkg_gdf) :
                  /\ gpkg_gdf[k].type = "wpt"
                  /\ gpkg_gdf[k].point_id = merged[2 * k - 1].point_id
                  /\ gpkg_gdf[k].order = merged[2 * k - 1].order
                  /\ gpkg_gdf[k].elev = merged[2 * k - 1].elev
                  /\ gpkg_gdf[k].geometry = Wgs84(merged[2 * k - 1].geometry)
                  /\ gpkg_gdf[k].cluster_id = 0

\* A successful run of three features whose route is not the file's order:
\* five records in the flat file, three in the geometry file.
C13_Witness ==
    /\ pc = "done"
    /\ written = {"gpkg", "csv"}
    /\ tsp_route = <<0, 2, 1>>
    /\ Len(csv_df) = 5
    /\ Len(gpkg_gdf) = 3
    /\ csv_df[3].point_id = 3
    /\ gpkg_gdf[2].point_id = 3

\* C14: get_tsp_solution_df gives one waypoint per feature, in route order:
\* waypoint k is the feature of index route[k-1], of type wpt and order k;
\* every checkpoint of extract_path_checkpoints has type cpt, order 0 and
\* point_id 0.
C14_WaypointPerFeature ==
    /\ Returned("get_tsp_solution_df") =>
          /\ Len(waypoints) = Len(features.rows)
          /\ \A k \in 1..Len(waypoints) :
                LET feature == features.rows[tsp_route[k] + 1]
                IN  /\ waypoints[k].point_id = feature.point_id
                    /\ waypoints[k].geometry = feature.geometry
                    /\ waypoints[k].elev = feature.elev
                    /\ waypoints[k].type = "wpt"
                    /\ waypoints[k].order = k
          /\ \A i \in 1..Len(features.rows) :
                \E k \in 1..Len(waypoints) :
                    waypoints[k].point_id = features.rows[i].point_id
    /\ Returned("extract_path_checkpoints") =>
          \A i \in 1..Len(checkpoints) :
              /\ checkpoints[i].type = "cpt"
              /\ checkpoints[i].order = 0
              /\ checkpoints[i].point_id = 0

\* Three features visited in the order 2, 3, 1 from a takeoff near the
\* second, and the two checkpoints between them.
C14_Witness ==
    /\ Returned("extract_path_checkpoints")
    /\ tsp_route = <<1, 2, 0>>
    /\ waypoints[1].point_id = 2
    /\ waypoints[3].point_id = 1
    /\ Len(checkpoints) = 2

\* The sequence fix_cpt_wpt_elevation_duplicates was given.
FixupInput == merge_waypoints_and_checkpoints(waypoints, checkpoints)

\* Record i of the sequence is a checkpoint, record i+1 a waypoint, and
\* their elevations differ by less than 1e-3.
CloseToNext(df, i) ==
    /\ i < Len(df)
    /\ df[i].type = "cpt"
    /\ df[i + 1].type = "wpt"
    /\ df[i].elev # None /\ df[i + 1].elev # None
    /\ Abs(df[i].elev - df[i + 1].elev) < TieTolerance

\* C15: the result of fix_cpt_wpt_elevation_duplicates is determined by the
\* input elevations alone: at every position the elevation is the input's
\* plus exactly 1 if the record is a checkpoint, the next a waypoint and
\* their input elevations differ by less than 1e-3, and the input's
\* otherwise; no waypoint elevation, type, position, order or length changes.
C15_FixupIsOnePass ==
    Returned("fix_cpt_wpt_elevation_duplicates") =>
        /\ Len(merged) = Len(FixupInput)
        /\ \A i \in 1..Len(merged) :
              /\ merged[i].elev =
                    IF CloseToNext(FixupInput, i)
                    THEN FixupInput[i].elev + ElevUnit
                    ELSE FixupInput[i].elev
              /\ merged[i].type = "wpt" => merged[i].elev = FixupInput[i].elev
              /\ merged[i].type = FixupInput[i].type
              /\ merged[i].order = FixupInput[i].order
              /\ merged[i].point_id = FixupInput[i].point_id
              /\ merged[i].geometry = FixupInput[i].geometry

\* Three waypoints: the first checkpoint is within 1e-3 of the waypoint
\* after it and was raised, the second differs by 1e-3 and was not.
C15_Witness ==
    /\ Returned("fix_cpt_wpt_elevation_duplicates")
    /\ Len(merged) = 5
    /\ FixupInput[2].elev # FixupInput[3].elev
    /\ merged[2].elev = FixupInput[2].elev + ElevUnit
    /\ FixupInput[4].elev = FixupInput[5].elev + TieTolerance
    /\ merged[4].elev = FixupInput[4].elev

\* C16: when every sampled elevation, of waypoints and of checkpoints, is
\* the same c, after the fix-up every checkpoint is at c + 1 and every
\* waypoint at c, so no two consecutive records (wpt then cpt, or cpt then
\* wpt) differ in elevation by less than 1.
C16_ConstantElevation ==
    (/\ Returned("fix_cpt_wpt_elevation_duplicates")
     /\ FixupInput[1].elev # None
     /\ \A i \in 1..Len(FixupInput) : FixupInput[i].elev = FixupInput[1].elev) =>
        LET c == FixupInput[1].elev
        IN  /\ \A i \in 1..Len(merged) :
                  /\ merged[i].type = "cpt" => merged[i].elev = c + ElevUnit
                  /\ merged[i].type = "wpt" => merged[i].elev = c
            /\ \A i \in 1..(Len(merged) - 1) :
                  Abs(merged[i].elev - merged[i + 1].elev) >= ElevUnit

\* A successful run of three features at three places over the raster of
\* constant value 50: both checkpoints at 51.
C16_Witness ==
    /\ pc = "done"
    /\ dsm.raster = "flat"
    /\ Len(merged) = 5
    /\ merged[1].geometry # merged[3].geometry
    /\ merged[3].geometry # merged[5].geometry
    /\ merged[1].geometry # merged[5].geometry
    /\ \A i \in {1, 3, 5} : merged[i].elev = 50 * ElevUnit
    /\ \A i \in {2, 4} : merged[i].elev = 51 * ElevUnit

\* What holds of a run and of main in every state: an exception and only an
\* exception ends run; after it main is in its except clause at most and
\* has built no mission file; mission files are built in their order, only
\* with a CSV path, which a configured run has returned and written.
HaltedOnFailure ==
    /\ (error # NoError) <=> (pc = "failed")
    /\ pc # "read_features" => (config.features_path /\ config.dsm_path)
    /\ pc = "failed" =>
          /\ main_pc \in {"build_csv", "failed"}
          /\ mission = <<>>
    /\ main_pc = "aborted" => mission = <<>>
    /\ mission = SubSeq(<<"kml", "wpml", "kmz">>, 1, Len(mission))
    /\ mission # <<>> =>
          /\ config.csv_path # ""
          /\ (config.features_path /\ config.dsm_path) =>
                (pc = "done" /\ "csv" \in written)

\* What holds of every step: run moves to the next stage or fails, and never
\* after it has ended; each product is written by its own stage only; main
\* builds mission files only in its three mission steps and does nothing
\* after it has ended.
StepInOrder ==
    /\ pc' # pc =>
          /\ pc \notin {"failed", "done"}
          /\ pc' = "failed" \/ StageNo(pc') = StageNo(pc) + 1
    /\ pc \in {"failed", "done"} => UNCHANGED run_vars
    /\ features' # features =>
          pc \in {"read_features", "align_features_to_dsm",
                  "extract_features_elevations"}
    /\ dsm' # dsm => pc = "read_dsm"
    /\ samples' # samples =>
          pc \in {"extract_features_elevations", "extract_path_checkpoints"}
    /\ distance_matrix' # distance_matrix => pc = "build_distance_matrix"
    /\ tsp_route' # tsp_route => pc = "solve_tsp_ortools"
    /\ waypoints' # waypoints => pc = "get_tsp_solution_df"
    /\ checkpoints' # checkpoints => pc = "extract_path_checkpoints"
    /\ merged' # merged =>
          pc \in {"merge_waypoints_and_checkpoints",
                  "fix_cpt_wpt_elevation_duplicates"}
    /\ (csv_df' # csv_df \/ gpkg_gdf' # gpkg_gdf) => pc = "to_wgs84"
    /\ written' # written => pc \in {"export_to_gpkg", "export_to_csv"}
    /\ mission' # mission =>
          main_pc \in {"build_kml", "build_wpml", "create_kmz"}
    /\ main_pc \in {"aborted", "failed", "done"} => UNCHANGED vars

\* C17: the stages of run execute strictly in their order, each at most
\* once and with no retry; an exception raised by a stage ends run, so that
\* no later stage executes; and main executes none of its mission steps
\* (KML, WPML, KMZ) after a run that failed or without a CSV file.
C17_StagesInOrderNoRetry == []HaltedOnFailure /\ [][StepInOrder]_vars

\* Every stage up to the last export has run, export_to_csv raised, and
\* main has ended in its except clause with no mission file built.
C17_Witness ==
    /\ pc = "failed"
    /\ error.stage = "export_to_csv"
    /\ written = {"gpkg"}
    /\ main_pc = "failed"
    /\ mission = <<>>

\* The matrix is symmetric.
IsSymmetric(m) == \A i, j \in DOMAIN m : m[i][j] = m[j][i]

\* The cost of the closed tour of the route under the costs.
TourCost(route, costs) ==
    LET n == Len(route)
        RECURSIVE Sum(_)
        Sum(k) == IF k > n THEN 0
                  ELSE costs[route[k]][route[IF k = n THEN 1 ELSE k + 1]] + Sum(k + 1)
    IN  Sum(1)

\* C18: the cost the solver uses for a pair (i, j) is the distance times
\* 1000 truncated toward zero to an integer (the integer c with
\* c <= 1000 d < c + 1); the costs are non-negative, zero on the diagonal,
\* symmetric when the distances are; and of two distances the smaller never
\* gets the larger cost: distances less than 0.001 apart get the same cost
\* or costs 1 apart in the same order.
C18_ScaledCostTruncates ==
    LET scaled == scaled_matrix(distance_matrix)
        idx == DOMAIN distance_matrix
    IN  /\ DOMAIN scaled = idx
        /\ \A i, j \in idx :
              /\ scaled[i][j] * DistUnit <= distance_matrix[i][j] * CostScale
              /\ distance_matrix[i][j] * CostScale < (scaled[i][j] + 1) * DistUnit
              /\ scaled[i][j] >= 0
              /\ scaled[i][i] = 0
              /\ \A k, l \in idx :
                    /\ distance_matrix[i][j] <= distance_matrix[k][l] =>
                          scaled[i][j] <= scaled[k][l]
                    /\ Abs(distance_matrix[i][j] - distance_matrix[k][l]) * CostScale
                              < DistUnit =>
                          Abs(scaled[i][j] - scaled[k][l]) <= 1
        /\ IsSymmetric(distance_matrix) => IsSymmetric(scaled)
        /\ (Returned("solve_tsp_ortools") /\ tsp_route # NoRoute) =>
              objective = TourCost(tsp_route, scaled)

\* The solver has returned a route over three features whose distances are
\* 1.0004, 1.0009 and 1.001: the first two have the same cost, the third
\* the next one.
C18_Witness ==
    /\ Returned("solve_tsp_ortools")
    /\ tsp_route # NoRoute
    /\ Len(tsp_route) = 3
    /\ IsSymmetric(distance_matrix)
    /\ distance_matrix[0][1] = DistUnit + 4
    /\ distance_matrix[1][2] = DistUnit + 9
    /\ distance_matrix[0][2] = DistUnit + 10
    /\ scaled_matrix(distance_matrix)[0][1] = scaled_matrix(distance_matrix)[1][2]
    /\ scaled_matrix(distance_matrix)[0][2] = scaled_matrix(distance_matrix)[1][2] + 1

====
